---- MODULE Spec2Model ----
(***************************************************************************)
(* BinaryAssetManager (src/src/src.ts): an IndexedDB-backed store of       *)
(* binary assets with an object-URL cache and zip export / import.         *)
(*                                                                         *)
(* The model keeps the asynchronous structure of the code: a facade call   *)
(* either settles at once (guard failures, cache hits, deleteFile, clear)  *)
(* or places one request in the database's transaction queue and settles   *)
(* when the request's onsuccess callback runs.  IndexedDB runs             *)
(* transactions with overlapping scope in creation order whenever one of   *)
(* them is readwrite; read-only transactions may complete in any order.    *)
(*                                                                         *)
(* Strings the code takes apart (record names) are sequences of one-       *)
(* character strings; an asset id "asset:<uuid>" is a number (the key      *)
(* order of the store is the order of the numbers).                        *)
(***************************************************************************)
EXTENDS Integers, Sequences, FiniteSets, Bags, TLC

\* ---------------------------------------------------------------- bounds
MaxIds == 2         \* ids uuid() can return, and ids callers name, in Spec
MaxUrls == 2        \* object URLs minted in one behaviour
MaxQueue == 2       \* requests waiting in the transaction queue
MaxEntries == 2     \* entries of an archive handed to uploadZip
MaxRecords == 3     \* records of the store an export starts from (SpecZip)
MaxFailures == 1    \* entries of one export whose zipWriter.add throws

\* ---------------------------------------------------------------- values
Managers == {"A", "B"}
Ids == 1..MaxIds
Datas == {<<7>>, <<8, 9>>}

\* "a.t", "b" : names used by the facade specifications
NameAT == <<"a", ".", "t">>
NameB == <<"b">>
NoName == <<>>      \* undefined or "" : both falsy, both without characters

\* the string of an id: it holds no '.', so one token stands for it
IdName(id) == <<"asset:" \o ToString(id)>>

\* File objects (named) and plain Blobs handed to addFile / syncFile
MkFile(name, data) == [isFile |-> TRUE, name |-> name, data |-> data]
MkBlob(data) == [isFile |-> FALSE, name |-> NoName, data |-> data]
FileInputs == {MkFile(NameAT, <<7>>), MkBlob(<<8, 9>>)}
NameArgs == {NoName, NameB}

\* blob.size
BlobSize(f) == Len(f.data)

VARIABLES
    idbVersion,   \* [database name -> 0 (absent) or 2]
    idbStore,     \* [database name -> [ids stored -> record]]
    txq,          \* [database name -> sequence of requests not yet run]
    db,           \* [manager -> "null" | "upgrading" | "open"]  (this.db)
    openReq,      \* [manager -> "none" | "pending" | "upgraded"] (indexedDB.open)
    lifecycle,    \* [manager -> "Uninitialized" | "Initializing" | "Ready"]
    urlCache,     \* [manager -> [ids cached -> url]]             (this.urlCache)
    objectUrls,   \* sequence, url u |-> [data, revoked, by]      (URL.createObjectURL)
    uuidPool,     \* the ids uuid() has not returned yet and no caller has named
    call,         \* [manager -> the call in flight, or Idle]
    lastEv        \* the call that settled last, with its outcome

vars == <<idbVersion, idbStore, txq, db, openReq, lifecycle, urlCache,
          objectUrls, uuidPool, call, lastEv>>

\* ------------------------------------------------------------ the database
\* src.ts:18-19 : every instance uses the same database and store name
dbNamePerInstance(m) == "BinaryAssetManagerDB_" \o m
dbName(m) == "BinaryAssetManagerDB"
DbNames == {dbName(m) : m \in Managers}

\* version passed to indexedDB.open
DbVersion == 2

EmptyStore == [i \in {} |-> 0]
StoreOf(m) == idbStore[dbName(m)]

\* store.put(item): insert or replace by key
StoreAddOnly(s, item) ==
    [i \in DOMAIN s \cup {item.id} |-> IF i \in DOMAIN s THEN s[i] ELSE item]
StorePutMerge(s, item) ==
    [i \in DOMAIN s \cup {item.id} |->
        IF i # item.id THEN s[i]
        ELSE IF i \in DOMAIN s THEN [item EXCEPT !.name = s[i].name] ELSE item]
StorePut(s, item) == [i \in DOMAIN s \cup {item.id} |-> IF i = item.id THEN item ELSE s[i]]
\* store.delete(key): no-op when absent
StoreDeleteAbsentClears(s, id) ==
    IF id \in DOMAIN s THEN [i \in DOMAIN s \ {id} |-> s[i]] ELSE [i \in {} |-> 0]
StoreDelete(s, id) == [i \in DOMAIN s \ {id} |-> s[i]]

RECURSIVE SortedIds(_)
SortedIds(S) ==
    IF S = {} THEN <<>>
    ELSE LET lo == CHOOSE x \in S : \A y \in S : x <= y
         IN <<lo>> \o SortedIds(S \ {lo})

\* store.getAll(): every record, in ascending key order
GetAll(s) == LET ks == SortedIds(DOMAIN s) IN [k \in 1..Len(ks) |-> s[ks[k]]]

\* ----------------------------------------------------------------- records
\* src.ts:61-67 : the item addFile stores
AddFileItem(id, file, name) ==
    [id |-> id,
     name |-> IF name # NoName THEN name
              ELSE IF file.isFile THEN file.name ELSE IdName(id),
     file |-> file,
     size |-> BlobSize(file),
     hash |-> "hash"]

\* src.ts:126-132 : the item syncFile stores
SyncFileItemOtherId(id, file) ==
    [id |-> (id % MaxIds) + 1,
     name |-> IF file.isFile THEN file.name ELSE IdName(id),
     file |-> file,
     size |-> BlobSize(file),
     hash |-> "hash"]
SyncFileItem(id, file) ==
    [id |-> id,
     name |-> IF file.isFile THEN file.name ELSE IdName(id),
     file |-> file,
     size |-> BlobSize(file),
     hash |-> "hash"]

\* entries a caller may hand to addAssetEntry: size is the caller's word
AssetEntries ==
    {[id |-> i, name |-> NameB, file |-> MkBlob(<<8, 9>>), size |-> 5, hash |-> "hash"] :
        i \in Ids}

\* ------------------------------------------------------------------ events
Idle == [op |-> "idle"]
NoEv == [c |-> "none", op |-> "none", ok |-> TRUE, err |-> "", st |-> "",
         aft |-> "",
         id |-> 0, url |-> 0, n |-> 0, rec |-> <<>>,
         zip |-> <<>>, files |-> <<>>, failed |-> {}, ins |-> <<>>, rt |-> FALSE]

\* what a call on id is issued right after: "addFile" when the call settled
\* last is an addFile of the same manager that resolved with id ("otherAddFile"
\* when it is one of another manager), "deleteFile" when it is a deleteFile(id)
\* that resolved, "clear" when it is a clear() that resolved
After(m, id) ==
    IF lastEv.c = m /\ lastEv.ok /\ lastEv.op \in {"addFile", "deleteFile"} /\ lastEv.id = id
    THEN lastEv.op
    ELSE IF lastEv.c = m /\ lastEv.ok /\ lastEv.op = "clear" THEN "clear"
    ELSE IF lastEv.c \notin {m, "none"} /\ lastEv.ok /\ lastEv.op = "addFile" /\ lastEv.id = id
    THEN "otherAddFile"
    ELSE ""

\* a call of operation op on manager m, issued now
NewCall(m, op, id) ==
    [op |-> op, id |-> id, st |-> lifecycle[m], aft |-> After(m, id)]

EvOf(m, c) == [NoEv EXCEPT !.c = m, !.op = c.op, !.id = c.id, !.st = c.st, !.aft = c.aft]
Resolved(m, c) == EvOf(m, c)
Rejected(m, c, err) == [EvOf(m, c) EXCEPT !.ok = FALSE, !.err = err]

\* `if (!this.db) throw new Error("Database not initialized")`, then
\* this.db.transaction(...), which throws InvalidStateError while the
\* connection's upgrade transaction is live
GuardError(m) ==
    IF db[m] = "null" THEN "NotInitialized"
    ELSE IF db[m] = "upgrading" THEN "InvalidStateError"
    ELSE ""

Req(m, kind, id, item) == [m |-> m, kind |-> kind, id |-> id, item |-> item]
IsWrite(r) == r.kind \in {"put", "delete", "clear"}
Enqueue(m, r) == txq' = [txq EXCEPT ![dbName(m)] = Append(@, r)]
QueueRoom(m) == Len(txq[dbName(m)]) < MaxQueue

\* request k of the queue may run: nothing created before it conflicts
CanRun(q, k) ==
    /\ k \in 1..Len(q)
    /\ \A j \in 1..(k - 1) : ~IsWrite(q[j]) /\ ~IsWrite(q[k])
Dequeue(q, k) == [j \in 1..(Len(q) - 1) |-> IF j < k THEN q[j] ELSE q[j + 1]]

\* ------------------------------------------------------------------- Init
Init ==
    /\ idbVersion = [d \in DbNames |-> 0]
    /\ idbStore = [d \in DbNames |-> EmptyStore]
    /\ txq = [d \in DbNames |-> <<>>]
    /\ db = [m \in Managers |-> "null"]
    /\ openReq = [m \in Managers |-> "none"]
    /\ lifecycle = [m \in Managers |-> "Uninitialized"]
    /\ urlCache = [m \in Managers |-> EmptyStore]
    /\ objectUrls = <<>>
    /\ uuidPool = Ids
    /\ call = [m \in Managers |-> Idle]
    /\ lastEv = NoEv

\* ------------------------------------------------------------- initialize
\* src.ts:25-27 : indexedDB.open(this.dbName, 2)
Initialize(m) ==
    /\ openReq[m] = "none"
    /\ openReq' = [openReq EXCEPT ![m] = "pending"]
    /\ lifecycle' = [lifecycle EXCEPT ![m] = IF @ = "Ready" THEN "Ready" ELSE "Initializing"]
    /\ UNCHANGED <<idbVersion, idbStore, txq, db, urlCache, objectUrls, uuidPool, call, lastEv>>

Upgrading(d) == \E o \in Managers : dbName(o) = d /\ openReq[o] = "upgraded"

\* src.ts:40-45 : onupgradeneeded creates the object store and sets this.db
OnUpgradeNeeded(m) ==
    /\ openReq[m] = "pending"
    /\ idbVersion[dbName(m)] < DbVersion
    /\ ~Upgrading(dbName(m))
    /\ idbVersion' = [idbVersion EXCEPT ![dbName(m)] = DbVersion]
    /\ idbStore' = [idbStore EXCEPT ![dbName(m)] = EmptyStore]
    /\ db' = [db EXCEPT ![m] = "upgrading"]
    /\ openReq' = [openReq EXCEPT ![m] = "upgraded"]
    /\ UNCHANGED <<txq, lifecycle, urlCache, objectUrls, uuidPool, call, lastEv>>

\* src.ts:34-38 : onsuccess sets this.db and resolves
OnSuccessResetsStore(m) ==
    /\ \/ openReq[m] = "upgraded"
       \/ /\ openReq[m] = "pending"
          /\ idbVersion[dbName(m)] = DbVersion
          /\ ~Upgrading(dbName(m))
    /\ db' = [db EXCEPT ![m] = "open"]
    /\ openReq' = [openReq EXCEPT ![m] = "none"]
    /\ lifecycle' = [lifecycle EXCEPT ![m] = "Ready"]
    /\ idbStore' = [idbStore EXCEPT ![dbName(m)] = EmptyStore]
    /\ lastEv' = [NoEv EXCEPT !.c = m, !.op = "initialize", !.st = lifecycle[m]]
    /\ UNCHANGED <<idbVersion, txq, urlCache, objectUrls, uuidPool, call>>
OnSuccess(m) ==
    /\ \/ openReq[m] = "upgraded"
       \/ /\ openReq[m] = "pending"
          /\ idbVersion[dbName(m)] = DbVersion
          /\ ~Upgrading(dbName(m))
    /\ db' = [db EXCEPT ![m] = "open"]
    /\ openReq' = [openReq EXCEPT ![m] = "none"]
    /\ lifecycle' = [lifecycle EXCEPT ![m] = "Ready"]
    /\ lastEv' = [NoEv EXCEPT !.c = m, !.op = "initialize", !.st = lifecycle[m]]
    /\ UNCHANGED <<idbVersion, idbStore, txq, urlCache, objectUrls, uuidPool, call>>

\* ------------------------------------------------- facade calls: the store
\* A call that passed its guard waits for its request; one that did not is
\* rejected at once.
StartTx(m, c, r) ==
    IF GuardError(m) # ""
    THEN /\ lastEv' = Rejected(m, c, GuardError(m))
         /\ UNCHANGED <<txq, call>>
    ELSE /\ QueueRoom(m)
         /\ Enqueue(m, r)
         /\ call' = [call EXCEPT ![m] = c]
         /\ UNCHANGED lastEv

\* src.ts:7-9 : uuid() returns a value nobody holds yet
createFileID == uuidPool

\* src.ts:49-80
AddFile(m) ==
    /\ call[m] = Idle
    /\ \E id \in createFileID, file \in FileInputs, name \in NameArgs :
          /\ uuidPool' = uuidPool \ {id}
          /\ StartTx(m, NewCall(m, "addFile", id),
                     Req(m, "put", id, <<AddFileItem(id, file, name)>>))
    /\ UNCHANGED <<idbVersion, idbStore, db, openReq, lifecycle, urlCache, objectUrls>>

\* src.ts:82-96
AddAssetEntry(m) ==
    /\ call[m] = Idle
    /\ \E entry \in AssetEntries :
          /\ uuidPool' = uuidPool \ {entry.id}
          /\ StartTx(m, NewCall(m, "addAssetEntry", entry.id),
                     Req(m, "put", entry.id, <<entry>>))
    /\ UNCHANGED <<idbVersion, idbStore, db, openReq, lifecycle, urlCache, objectUrls>>

\* src.ts:117-137
SyncFile(m) ==
    /\ call[m] = Idle
    /\ \E id \in Ids, file \in FileInputs :
          /\ uuidPool' = uuidPool \ {id}
          /\ StartTx(m, NewCall(m, "syncFile", id),
                     Req(m, "put", id, <<SyncFileItem(id, file)>>))
    /\ UNCHANGED <<idbVersion, idbStore, db, openReq, lifecycle, urlCache, objectUrls>>

\* src.ts:98-108
GetFile(m) ==
    /\ call[m] = Idle
    /\ \E id \in Ids :
          StartTx(m, NewCall(m, "getFile", id), Req(m, "get", id, <<>>))
    /\ UNCHANGED <<idbVersion, idbStore, db, openReq, lifecycle, urlCache, objectUrls, uuidPool>>

UrlsInFlight == Cardinality({o \in Managers : call[o].op = "getFileUrl"})

\* src.ts:139-148 : the guard, the cache hit, else getFile
GetFileUrl(m) ==
    /\ call[m] = Idle
    /\ \E id \in Ids :
          LET c == NewCall(m, "getFileUrl", id) IN
          IF db[m] = "null"
          THEN /\ lastEv' = Rejected(m, c, "NotInitialized")
               /\ UNCHANGED <<txq, call>>
          ELSE IF id \in DOMAIN urlCache[m]
          THEN /\ lastEv' = [Resolved(m, c) EXCEPT !.url = urlCache[m][id]]
               /\ UNCHANGED <<txq, call>>
          ELSE /\ Len(objectUrls) + UrlsInFlight < MaxUrls
               /\ StartTx(m, c, Req(m, "get", id, <<>>))
    /\ UNCHANGED <<idbVersion, idbStore, db, openReq, lifecycle, urlCache, objectUrls, uuidPool>>

\* src.ts:163-172
GetTotalUsage(m) ==
    /\ call[m] = Idle
    /\ StartTx(m, NewCall(m, "getTotalUsage", 0), Req(m, "getAll", 0, <<>>))
    /\ UNCHANGED <<idbVersion, idbStore, db, openReq, lifecycle, urlCache, objectUrls, uuidPool>>

\* URL.revokeObjectURL(url)
Revoke(urls, U) == [u \in 1..Len(urls) |-> IF u \in U THEN [urls[u] EXCEPT !.revoked = TRUE] ELSE urls[u]]

DeleteFileKeepsUrl(cache, id) == cache
\* src.ts:266-270 : drop and revoke the cached URL of fileId
InvalidateUrl(cache, id) == [i \in DOMAIN cache \ {id} |-> cache[i]]

\* src.ts:260-271 : the delete request is issued and not awaited
DeleteFile(m) ==
    /\ call[m] = Idle
    /\ \E id \in Ids :
          LET c == NewCall(m, "deleteFile", id) IN
          IF db[m] = "upgrading"
          THEN /\ lastEv' = Rejected(m, c, "InvalidStateError")
               /\ UNCHANGED <<txq, urlCache, objectUrls>>
          ELSE /\ IF db[m] = "null" THEN UNCHANGED txq
                  ELSE QueueRoom(m) /\ Enqueue(m, Req(m, "delete", id, <<>>))
               /\ urlCache' = [urlCache EXCEPT ![m] = InvalidateUrl(@, id)]
               /\ objectUrls' = Revoke(objectUrls,
                                       {urlCache[m][i] : i \in DOMAIN urlCache[m] \ DOMAIN urlCache'[m]})
               /\ lastEv' = Resolved(m, c)
    /\ UNCHANGED <<idbVersion, idbStore, db, openReq, lifecycle, uuidPool, call>>

ClearKeepsUrls(cache) == cache
\* src.ts:278-282 : revoke every cached URL and empty the cache
InvalidateAll(cache) == EmptyStore

\* src.ts:273-283 : the clear request is issued and not awaited
Clear(m) ==
    /\ call[m] = Idle
    /\ LET c == NewCall(m, "clear", 0) IN
       IF db[m] = "upgrading"
       THEN /\ lastEv' = Rejected(m, c, "InvalidStateError")
            /\ UNCHANGED <<txq, urlCache, objectUrls>>
       ELSE /\ IF db[m] = "null" THEN UNCHANGED txq
               ELSE QueueRoom(m) /\ Enqueue(m, Req(m, "clear", 0, <<>>))
            /\ urlCache' = [urlCache EXCEPT ![m] = InvalidateAll(@)]
            /\ objectUrls' = Revoke(objectUrls,
                                    {urlCache[m][i] : i \in DOMAIN urlCache[m] \ DOMAIN urlCache'[m]})
            /\ lastEv' = Resolved(m, c)
    /\ UNCHANGED <<idbVersion, idbStore, db, openReq, lifecycle, uuidPool, call>>

\* --------------------------------------------------- requests that complete
Runnable(m, kind) == {k \in 1..Len(txq[dbName(m)]) :
                        /\ CanRun(txq[dbName(m)], k)
                        /\ txq[dbName(m)][k].m = m
                        /\ txq[dbName(m)][k].kind = kind}
Done(m, k) == txq' = [txq EXCEPT ![dbName(m)] = Dequeue(@, k)]

\* request.onsuccess of addFile (src.ts:78), addAssetEntry (94), syncFile (135)
PutSuccess(m) ==
    /\ call[m].op \in {"addFile", "addAssetEntry", "syncFile"}
    /\ \E k \in Runnable(m, "put") :
          /\ idbStore' = [idbStore EXCEPT ![dbName(m)] = StorePut(@, txq[dbName(m)][k].item[1])]
          /\ Done(m, k)
    /\ lastEv' = Resolved(m, call[m])
    /\ call' = [call EXCEPT ![m] = Idle]
    /\ UNCHANGED <<idbVersion, db, openReq, lifecycle, urlCache, objectUrls, uuidPool>>

\* store.get(fileID): the record in a one-element sequence, or none
StoreGetAnyRecord(s, id) ==
    IF id \in DOMAIN s THEN <<s[id]>>
    ELSE IF DOMAIN s = {} THEN <<>>
    ELSE <<s[CHOOSE i \in DOMAIN s : TRUE]>>
StoreGet(s, id) == IF id \in DOMAIN s THEN <<s[id]>> ELSE <<>>

\* src.ts:110-113 : getFile resolves with the record or null
GetFileSuccess(m) ==
    /\ call[m].op = "getFile"
    /\ \E k \in Runnable(m, "get") : Done(m, k)
    /\ lastEv' = [Resolved(m, call[m]) EXCEPT !.rec = StoreGet(StoreOf(m), call[m].id)]
    /\ call' = [call EXCEPT ![m] = Idle]
    /\ UNCHANGED <<idbVersion, idbStore, db, openReq, lifecycle, urlCache, objectUrls, uuidPool>>

\* src.ts:156 : this.urlCache.set(fileID, url)
CacheSet(cache, id, url) == [i \in DOMAIN cache \cup {id} |-> IF i = id THEN url ELSE cache[i]]

\* src.ts:149-158 : getFileUrl mints and caches a URL, or resolves null
GetFileUrlSuccess(m) ==
    /\ call[m].op = "getFileUrl"
    /\ \E k \in Runnable(m, "get") : Done(m, k)
    /\ LET file == StoreGet(StoreOf(m), call[m].id)
           url == Len(objectUrls) + 1
       IN IF file = <<>>
          THEN /\ lastEv' = Resolved(m, call[m])
               /\ UNCHANGED <<urlCache, objectUrls>>
          ELSE /\ objectUrls' = Append(objectUrls,
                                       [data |-> file[1].file.data, revoked |-> FALSE, by |-> m])
               /\ urlCache' = [urlCache EXCEPT ![m] = CacheSet(@, call[m].id, url)]
               /\ lastEv' = [Resolved(m, call[m]) EXCEPT !.url = url]
    /\ call' = [call EXCEPT ![m] = Idle]
    /\ UNCHANGED <<idbVersion, idbStore, db, openReq, lifecycle, uuidPool>>

RECURSIVE ReducePayloadLength(_, _)
ReducePayloadLength(files, acc) ==
    IF files = <<>> THEN acc
    ELSE ReducePayloadLength(Tail(files), acc + BlobSize(Head(files).file))

\* src.ts:177-180 : files.reduce((acc, file) => acc + file.size, 0)
RECURSIVE ReduceSize(_, _)
ReduceSize(files, acc) ==
    IF files = <<>> THEN acc ELSE ReduceSize(Tail(files), acc + Head(files).size)
\* src.ts:175-182
GetTotalUsageSuccess(m) ==
    /\ call[m].op = "getTotalUsage"
    /\ \E k \in Runnable(m, "getAll") : Done(m, k)
    /\ lastEv' = [Resolved(m, call[m]) EXCEPT !.n = ReduceSize(GetAll(StoreOf(m)), 0)]
    /\ call' = [call EXCEPT ![m] = Idle]
    /\ UNCHANGED <<idbVersion, idbStore, db, openReq, lifecycle, urlCache, objectUrls, uuidPool>>

\* src.ts:263 : the delete request of deleteFile runs; nobody listens
DeleteDone(m) ==
    /\ \E k \in Runnable(m, "delete") :
          /\ idbStore' = [idbStore EXCEPT ![dbName(m)] = StoreDelete(@, txq[dbName(m)][k].id)]
          /\ Done(m, k)
    /\ UNCHANGED <<idbVersion, db, openReq, lifecycle, urlCache, objectUrls, uuidPool, call, lastEv>>

\* src.ts:276 : the clear request of clear runs; nobody listens
ClearDone(m) ==
    /\ \E k \in Runnable(m, "clear") :
          /\ idbStore' = [idbStore EXCEPT ![dbName(m)] = EmptyStore]
          /\ Done(m, k)
    /\ UNCHANGED <<idbVersion, db, openReq, lifecycle, urlCache, objectUrls, uuidPool, call, lastEv>>

\* ------------------------------------------------------------ zip: export
\* name.split(".")
RECURSIVE SplitAcc(_, _, _)
SplitAcc(s, cur, parts) ==
    IF s = <<>> THEN Append(parts, cur)
    ELSE IF Head(s) = "." THEN SplitAcc(Tail(s), <<>>, Append(parts, cur))
    ELSE SplitAcc(Tail(s), Append(cur, Head(s)), parts)
Split(s) == SplitAcc(s, <<>>, <<>>)

\* nameParts.join(".")
RECURSIVE Join(_)
Join(parts) ==
    IF parts = <<>> THEN <<>>
    ELSE IF Len(parts) = 1 THEN parts[1]
    ELSE parts[1] \o <<".">> \o Join(Tail(parts))

\* `${counter}` : the decimal digits of counter
DigitChar(d) == <<"0", "1", "2", "3", "4", "5", "6", "7", "8", "9">>[d + 1]
RECURSIVE ToStr(_)
ToStr(n) == IF n < 10 THEN <<DigitChar(n)>> ELSE ToStr(n \div 10) \o <<DigitChar(n % 10)>>

\* src.ts:208-216 : the name tried for file.name at a given counter
ComposeFirstDot(name, counter) ==
    LET nameParts == Split(name) IN
    IF Len(nameParts) > 1
    THEN nameParts[1] \o <<"_">> \o ToStr(counter) \o <<".">> \o Join(Tail(nameParts))
    ELSE name \o <<"_">> \o ToStr(counter)
ComposeName(name, counter) ==
    LET nameParts == Split(name) IN
    IF Len(nameParts) > 1
    THEN LET ext == nameParts[Len(nameParts)]
             rest == SubSeq(nameParts, 1, Len(nameParts) - 1)
         IN Join(rest) \o <<"_">> \o ToStr(counter) \o <<".">> \o ext
    ELSE name \o <<"_">> \o ToStr(counter)

\* src.ts:207-218 : while (usedNames.has(uniqueName)) { ...; counter++ }
RECURSIVE UniqueNameLoop(_, _, _, _)
UniqueNameLoop(name, usedNames, uniqueName, counter) ==
    IF uniqueName \in usedNames
    THEN UniqueNameLoop(name, usedNames, ComposeName(name, counter), counter + 1)
    ELSE uniqueName

\* src.ts:203-218 : the name a record is exported under
UniqueName(name, usedNames) == UniqueNameLoop(name, usedNames, name, 1)

\* zipWriter.add(name, reader) of a codec that stores what it is given
ZipAdd(acc, name, file) ==
    [acc EXCEPT !.entries = Append(@, [filename |-> name, directory |-> FALSE, data |-> file.data])]

\* src.ts:227-234 : the catch block logs and goes on to the next file
CatchAddErrorRejects(acc) == [acc EXCEPT !.rejected = TRUE]
CatchAddError(acc) == acc

\* src.ts:202-235 : the loop over files; the adds of the files in F throw
RECURSIVE ZipLoop(_, _, _, _, _)
ZipLoop(files, i, usedNames, acc, F) ==
    IF i > Len(files) THEN acc
    ELSE LET uniqueName == UniqueName(files[i].name, usedNames) IN
         ZipLoop(files, i + 1, usedNames \cup {uniqueName},
                 IF i \in F THEN CatchAddError(acc)
                 ELSE ZipAdd(acc, uniqueName, files[i].file),
                 F)

\* src.ts:186-194
DownloadAsZip(m) ==
    /\ call[m] = Idle
    /\ StartTx(m, NewCall(m, "downloadAsZip", 0), Req(m, "getAll", 0, <<>>))
    /\ UNCHANGED <<idbVersion, idbStore, db, openReq, lifecycle, urlCache, objectUrls, uuidPool>>

\* src.ts:198-239 : request.onsuccess of downloadAsZip
DownloadAsZipSuccess(m) ==
    /\ call[m].op = "downloadAsZip"
    /\ \E k \in Runnable(m, "getAll") : Done(m, k)
    /\ \E F \in {G \in SUBSET (1..Len(GetAll(StoreOf(m)))) : Cardinality(G) <= MaxFailures} :
          LET files == GetAll(StoreOf(m))
              out == ZipLoop(files, 1, {}, [entries |-> <<>>, rejected |-> FALSE], F)
          IN lastEv' = IF out.rejected
                       THEN [Rejected(m, call[m], "ArchiveEntryError") EXCEPT
                                !.files = files, !.failed = F]
                       ELSE [Resolved(m, call[m]) EXCEPT
                                !.zip = out.entries, !.files = files, !.failed = F]
    /\ call' = [call EXCEPT ![m] = Idle]
    /\ UNCHANGED <<idbVersion, idbStore, db, openReq, lifecycle, urlCache, objectUrls, uuidPool>>

\* ------------------------------------------------------------ zip: import
ZipFile(name, data) == [filename |-> name, directory |-> FALSE, data |-> data]
ZipDir == [filename |-> <<"d", "/">>, directory |-> TRUE, data |-> <<>>]
ZipEntrySet == {ZipFile(NameAT, <<7>>), ZipDir}
ZipInputs == UNION {[1..n -> ZipEntrySet] : n \in 0..MaxEntries}

NextEntry(entries, i) == i
\* src.ts:247-248 : the next entry at or after i that is not a directory
RECURSIVE NextFile(_, _)
NextFile(entries, i) ==
    IF i > Len(entries) \/ ~entries[i].directory THEN i ELSE NextFile(entries, i + 1)

\* src.ts:249-252 : the File built from an entry's data and filename
EntryFileNoData(entry) == MkFile(entry.filename, <<>>)
EntryFile(entry) == MkFile(entry.filename, entry.data)

\* src.ts:243-245 : no guard; the reader is opened and its entries awaited
\* the archive the caller has just been handed by downloadAsZip
Downloaded(m) ==
    IF lastEv.op = "downloadAsZip" /\ lastEv.ok /\ lastEv.c = m THEN {lastEv.zip} ELSE {}

UploadZipOf(m, archives) ==
    /\ call[m] = Idle
    /\ \E zip \in archives :
          LET rt == lastEv.op = "downloadAsZip" /\ lastEv.ok /\ lastEv.c = m /\ zip = lastEv.zip
          IN call' = [call EXCEPT ![m] =
                 [op |-> "uploadZip", id |-> 0, st |-> lifecycle[m], aft |-> After(m, 0),
                  entries |-> zip, i |-> NextFile(zip, 1), phase |-> "read", ins |-> <<>>,
                  n0 |-> Cardinality(DOMAIN StoreOf(m)),
                  rt |-> rt,
                  files |-> IF rt THEN lastEv.files ELSE <<>>,
                  failed |-> IF rt THEN lastEv.failed ELSE {}]]
    /\ UNCHANGED <<idbVersion, idbStore, txq, db, openReq, lifecycle, urlCache, objectUrls,
                   uuidPool, lastEv>>

UploadZip(m) == UploadZipOf(m, ZipInputs \cup Downloaded(m))

UploadEv(m, c) ==
    [EvOf(m, c) EXCEPT !.zip = c.entries, !.ins = c.ins, !.rt = c.rt, !.n = c.n0,
                       !.files = c.files, !.failed = c.failed]

\* src.ts:249-253 and 257 : entry.getData() has resolved and addFile(file) is
\* called (src.ts:49-69), or the loop is over and the reader is closed
UploadZipStep(m) ==
    /\ call[m].op = "uploadZip"
    /\ call[m].phase = "read"
    /\ LET c == call[m] IN
       IF c.i > Len(c.entries)
       THEN /\ lastEv' = UploadEv(m, c)
            /\ call' = [call EXCEPT ![m] = Idle]
            /\ UNCHANGED <<txq, uuidPool>>
       ELSE \E id \in createFileID :
               LET entry == c.entries[c.i]
                   item == AddFileItem(id, EntryFile(entry), NoName)
               IN /\ uuidPool' = uuidPool \ {id}
                  /\ IF GuardError(m) # ""
                     THEN /\ lastEv' = [UploadEv(m, c) EXCEPT !.ok = FALSE, !.err = GuardError(m)]
                          /\ call' = [call EXCEPT ![m] = Idle]
                          /\ UNCHANGED txq
                     ELSE /\ QueueRoom(m)
                          /\ Enqueue(m, Req(m, "put", id, <<item>>))
                          /\ call' = [call EXCEPT ![m] =
                                 [c EXCEPT !.phase = "put", !.ins = Append(@, item)]]
                          /\ UNCHANGED lastEv
    /\ UNCHANGED <<idbVersion, idbStore, db, openReq, lifecycle, urlCache, objectUrls>>

\* src.ts:78 : the put of the addFile inside uploadZip has succeeded
UploadPutSuccess(m) ==
    /\ call[m].op = "uploadZip"
    /\ call[m].phase = "put"
    /\ \E k \in Runnable(m, "put") :
          /\ idbStore' = [idbStore EXCEPT ![dbName(m)] = StorePut(@, txq[dbName(m)][k].item[1])]
          /\ Done(m, k)
    /\ call' = [call EXCEPT ![m] =
           [@ EXCEPT !.phase = "read", !.i = NextFile(call[m].entries, call[m].i + 1)]]
    /\ UNCHANGED <<idbVersion, db, openReq, lifecycle, urlCache, objectUrls, uuidPool, lastEv>>

\* the caller imports the archive it has just exported
ReUploadZip(m) == UploadZipOf(m, Downloaded(m))

ZipStep(m) ==
    \/ DownloadAsZip(m) \/ DownloadAsZipSuccess(m)
    \/ UploadZip(m) \/ UploadZipStep(m) \/ UploadPutSuccess(m)

StoreStep(m) ==
    \/ Initialize(m) \/ OnUpgradeNeeded(m) \/ OnSuccess(m)
    \/ AddFile(m) \/ AddAssetEntry(m) \/ SyncFile(m) \/ GetFile(m) \/ GetFileUrl(m)
    \/ GetTotalUsage(m) \/ DeleteFile(m) \/ Clear(m)
    \/ PutSuccess(m) \/ GetFileSuccess(m) \/ GetFileUrlSuccess(m) \/ GetTotalUsageSuccess(m)
    \/ DeleteDone(m) \/ ClearDone(m)

\* one manager, the store operations of the facade
Next == \E m \in {"A"} : StoreStep(m)
Spec == Init /\ [][Next]_vars

\* one manager, every operation of the facade
NextFacade == \E m \in {"A"} : StoreStep(m) \/ ZipStep(m)
SpecFacade == Init /\ [][NextFacade]_vars

\* two managers of one origin, each constructed and initialized
InitTwo ==
    /\ idbVersion = [d \in DbNames |-> DbVersion]
    /\ idbStore = [d \in DbNames |-> EmptyStore]
    /\ txq = [d \in DbNames |-> <<>>]
    /\ db = [m \in Managers |-> "open"]
    /\ openReq = [m \in Managers |-> "none"]
    /\ lifecycle = [m \in Managers |-> "Ready"]
    /\ urlCache = [m \in Managers |-> EmptyStore]
    /\ objectUrls = <<>>
    /\ uuidPool = Ids
    /\ call = [m \in Managers |-> Idle]
    /\ lastEv = NoEv

TwoStep(m) ==
    \/ AddFile(m) \/ GetFile(m) \/ GetFileUrl(m) \/ GetTotalUsage(m) \/ DeleteFile(m)
    \/ PutSuccess(m) \/ GetFileSuccess(m) \/ GetFileUrlSuccess(m) \/ GetTotalUsageSuccess(m)
    \/ DeleteDone(m)
NextTwo == \E m \in Managers : TwoStep(m)
SpecTwo == InitTwo /\ [][NextTwo]_vars

\* ------------------------------------------------ export and import alone
\* names and payloads of the records an export starts from:
\* "a.t" (twice), "a_1.t", "a", "a_1", "a.b.t"
ZipRecords ==
    {[name |-> NameAT, data |-> <<7>>],
     [name |-> NameAT, data |-> <<8, 9>>],
     [name |-> <<"a", "_", "1", ".", "t">>, data |-> <<7>>],
     [name |-> <<"a">>, data |-> <<7>>],
     [name |-> <<"a", "_", "1">>, data |-> <<8, 9>>],
     [name |-> <<"a", ".", "b", ".", "t">>, data |-> <<7>>]}

\* a Ready manager over a store that earlier addAssetEntry calls filled
InitZip ==
    /\ \E n \in 0..MaxRecords :
          \E recs \in [1..n -> ZipRecords] :
             /\ idbStore = [d \in DbNames |->
                    [i \in 1..n |-> [id |-> i, name |-> recs[i].name,
                                     file |-> MkBlob(recs[i].data),
                                     size |-> Len(recs[i].data), hash |-> "hash"]]]
             /\ uuidPool = (n + 1)..(n + n)
    /\ idbVersion = [d \in DbNames |-> DbVersion]
    /\ txq = [d \in DbNames |-> <<>>]
    /\ db = [m \in Managers |-> IF m = "A" THEN "open" ELSE "null"]
    /\ openReq = [m \in Managers |-> "none"]
    /\ lifecycle = [m \in Managers |-> IF m = "A" THEN "Ready" ELSE "Uninitialized"]
    /\ urlCache = [m \in Managers |-> EmptyStore]
    /\ objectUrls = <<>>
    /\ call = [m \in Managers |-> Idle]
    /\ lastEv = NoEv

NextZip ==
    \E m \in {"A"} :
       \/ DownloadAsZip(m) \/ DownloadAsZipSuccess(m)
       \/ ReUploadZip(m) \/ UploadZipStep(m) \/ UploadPutSuccess(m)
SpecZip == InitZip /\ [][NextZip]_vars

\* initialize and import alone
NextImport ==
    \E m \in {"A"} :
       \/ Initialize(m) \/ OnUpgradeNeeded(m) \/ OnSuccess(m)
       \/ UploadZip(m) \/ UploadZipStep(m) \/ UploadPutSuccess(m)
       \/ GetTotalUsage(m) \/ GetTotalUsageSuccess(m)
SpecImport == Init /\ [][NextImport]_vars

\* -------------------------------------------------------- import: failures
\* the store without the records an import had inserted
RollBack(s, ins) == [i \in DOMAIN s \ {ins[k].id : k \in 1..Len(ins)} |-> s[i]]
\* src.ts:247-255 : the loop has no try/catch and undoes nothing when it throws
KeepInserted(s, ins) == s

\* src.ts:245 : zipReader.getEntries() rejects, so uploadZip rejects before
\* its loop
UploadZipHeaderError(m) ==
    /\ call[m] = Idle
    /\ lastEv' = [Rejected(m, NewCall(m, "uploadZip", 0), "ArchiveHeaderError") EXCEPT
                     !.n = Cardinality(DOMAIN StoreOf(m))]
    /\ UNCHANGED <<idbVersion, idbStore, txq, db, openReq, lifecycle, urlCache, objectUrls,
                   uuidPool, call>>

\* src.ts:249 : entry.getData() rejects; the rejection leaves uploadZip
UploadDecodeError(m) ==
    /\ call[m].op = "uploadZip"
    /\ call[m].phase = "read"
    /\ call[m].i <= Len(call[m].entries)
    /\ lastEv' = [UploadEv(m, call[m]) EXCEPT !.ok = FALSE, !.err = "ArchiveEntryError"]
    /\ idbStore' = [idbStore EXCEPT ![dbName(m)] = KeepInserted(@, call[m].ins)]
    /\ call' = [call EXCEPT ![m] = Idle]
    /\ UNCHANGED <<idbVersion, txq, db, openReq, lifecycle, urlCache, objectUrls, uuidPool>>

\* src.ts:71-77 and 253 : the put of the addFile inside uploadZip fails,
\* addFile rejects and the rejection leaves uploadZip
UploadPutError(m) ==
    /\ call[m].op = "uploadZip"
    /\ call[m].phase = "put"
    /\ \E k \in Runnable(m, "put") : Done(m, k)
    /\ LET c == [call[m] EXCEPT !.ins = SubSeq(@, 1, Len(@) - 1)] IN
          /\ lastEv' = [UploadEv(m, c) EXCEPT !.ok = FALSE, !.err = "StorageError"]
          /\ idbStore' = [idbStore EXCEPT ![dbName(m)] = KeepInserted(@, c.ins)]
    /\ call' = [call EXCEPT ![m] = Idle]
    /\ UNCHANGED <<idbVersion, db, openReq, lifecycle, urlCache, objectUrls, uuidPool>>

\* initialize and import, with archives and puts that fail
NextImportFail ==
    \/ NextImport
    \/ \E m \in {"A"} :
          UploadZipHeaderError(m) \/ UploadDecodeError(m) \/ UploadPutError(m)
SpecImportFail == Init /\ [][NextImportFail]_vars

\* ------------------------------------------------- requests that fail
\* src.ts:29-32 : the open request fails; this.db keeps what it held
OnError(m) ==
    /\ openReq[m] = "pending"
    /\ openReq' = [openReq EXCEPT ![m] = "none"]
    /\ lifecycle' = [lifecycle EXCEPT ![m] = IF db[m] = "open" THEN "Ready" ELSE "Uninitialized"]
    /\ lastEv' = [NoEv EXCEPT !.c = m, !.op = "initialize", !.st = lifecycle[m],
                              !.ok = FALSE, !.err = "StorageError"]
    /\ UNCHANGED <<idbVersion, idbStore, txq, db, urlCache, objectUrls, uuidPool, call>>

\* request.onerror of addFile (src.ts:71-77), addAssetEntry (93), syncFile (134)
PutError(m) ==
    /\ call[m].op \in {"addFile", "addAssetEntry", "syncFile"}
    /\ \E k \in Runnable(m, "put") : Done(m, k)
    /\ lastEv' = Rejected(m, call[m], "StorageError")
    /\ call' = [call EXCEPT ![m] = Idle]
    /\ UNCHANGED <<idbVersion, idbStore, db, openReq, lifecycle, urlCache, objectUrls, uuidPool>>

\* request.onerror of getFile (src.ts:109), which getFileUrl passes on (159)
GetError(m) ==
    /\ call[m].op \in {"getFile", "getFileUrl"}
    /\ \E k \in Runnable(m, "get") : Done(m, k)
    /\ lastEv' = Rejected(m, call[m], "StorageError")
    /\ call' = [call EXCEPT ![m] = Idle]
    /\ UNCHANGED <<idbVersion, idbStore, db, openReq, lifecycle, urlCache, objectUrls, uuidPool>>

\* request.onerror of getTotalUsage (src.ts:174)
GetAllError(m) ==
    /\ call[m].op = "getTotalUsage"
    /\ \E k \in Runnable(m, "getAll") : Done(m, k)
    /\ lastEv' = Rejected(m, call[m], "StorageError")
    /\ call' = [call EXCEPT ![m] = Idle]
    /\ UNCHANGED <<idbVersion, idbStore, db, openReq, lifecycle, urlCache, objectUrls, uuidPool>>

\* src.ts:263 : the delete request of deleteFile fails; it has no onerror
\* handler and deleteFile returned when it was issued
DeleteError(m) ==
    /\ \E k \in Runnable(m, "delete") : Done(m, k)
    /\ UNCHANGED <<idbVersion, idbStore, db, openReq, lifecycle, urlCache, objectUrls,
                   uuidPool, call, lastEv>>

\* src.ts:276 : the clear request of clear fails; it has no onerror handler
ClearError(m) ==
    /\ \E k \in Runnable(m, "clear") : Done(m, k)
    /\ UNCHANGED <<idbVersion, idbStore, db, openReq, lifecycle, urlCache, objectUrls,
                   uuidPool, call, lastEv>>

\* a request of manager m fails
StoreFailure(m) ==
    \/ OnError(m) \/ PutError(m) \/ GetError(m) \/ GetAllError(m)
    \/ DeleteError(m) \/ ClearError(m)

\* one manager, the store operations of the facade over a store that may fail
NextFail == \E m \in {"A"} : StoreStep(m) \/ StoreFailure(m)
SpecFail == Init /\ [][NextFail]_vars

\* ------------------------------------------- calls that are not awaited
\* the getFileUrl calls of manager m whose getFile request is waiting
UrlGets(m) == {k \in 1..Len(txq[dbName(m)]) :
                  txq[dbName(m)][k].m = m /\ txq[dbName(m)][k].kind = "urlget"}

\* src.ts:139-148 : getFileUrl called while earlier calls of the caller are
\* still pending; the call travels with its request
GetFileUrlOverlapped(m) ==
    /\ call[m] = Idle
    /\ \E id \in Ids :
          LET c == NewCall(m, "getFileUrl", id) IN
          IF db[m] = "null"
          THEN /\ lastEv' = Rejected(m, c, "NotInitialized")
               /\ UNCHANGED txq
          ELSE IF id \in DOMAIN urlCache[m]
          THEN /\ lastEv' = [Resolved(m, c) EXCEPT !.url = urlCache[m][id]]
               /\ UNCHANGED txq
          ELSE IF db[m] = "upgrading"
          THEN /\ lastEv' = Rejected(m, c, "InvalidStateError")
               /\ UNCHANGED txq
          ELSE /\ Len(objectUrls) + Cardinality(UrlGets(m)) < MaxUrls
               /\ QueueRoom(m)
               /\ Enqueue(m, Req(m, "urlget", id, <<c>>))
               /\ UNCHANGED lastEv
    /\ UNCHANGED <<idbVersion, idbStore, db, openReq, lifecycle, urlCache, objectUrls,
                   uuidPool, call>>

\* src.ts:149-158 : the .then of one of the pending getFileUrl calls
GetFileUrlOverlappedSuccess(m) ==
    /\ \E k \in Runnable(m, "urlget") :
          LET c == txq[dbName(m)][k].item[1]
              file == StoreGet(StoreOf(m), c.id)
              url == Len(objectUrls) + 1
          IN /\ Done(m, k)
             /\ IF file = <<>>
                THEN /\ lastEv' = Resolved(m, c)
                     /\ UNCHANGED <<urlCache, objectUrls>>
                ELSE /\ objectUrls' = Append(objectUrls,
                                             [data |-> file[1].file.data, revoked |-> FALSE, by |-> m])
                     /\ urlCache' = [urlCache EXCEPT ![m] = CacheSet(@, c.id, url)]
                     /\ lastEv' = [Resolved(m, c) EXCEPT !.url = url]
    /\ UNCHANGED <<idbVersion, idbStore, db, openReq, lifecycle, uuidPool, call>>

\* a Ready manager whose caller does not await getFileUrl before it goes on
RaceStep(m) ==
    \/ AddFile(m) \/ PutSuccess(m)
    \/ GetFileUrlOverlapped(m) \/ GetFileUrlOverlappedSuccess(m)
    \/ DeleteFile(m) \/ DeleteDone(m) \/ Clear(m) \/ ClearDone(m)
NextRace == \E m \in {"A"} : RaceStep(m)
SpecRace == InitTwo /\ [][NextRace]_vars

\* -------------------------------------------------------- export: failures
\* src.ts:197 : request.onerror of downloadAsZip rejects
DownloadReadError(m) ==
    /\ call[m].op = "downloadAsZip"
    /\ "handler" \notin DOMAIN call[m]
    /\ \E k \in Runnable(m, "getAll") : Done(m, k)
    /\ lastEv' = Rejected(m, call[m], "StorageError")
    /\ call' = [call EXCEPT ![m] = Idle]
    /\ UNCHANGED <<idbVersion, idbStore, db, openReq, lifecycle, urlCache, objectUrls, uuidPool>>

\* src.ts:198 and 237 : `await zipWriter.close()` rejects inside the async
\* onsuccess handler; the handler's own promise rejects, and neither resolve
\* nor reject of the promise downloadAsZip returned is ever called
DownloadCloseError(m) ==
    /\ call[m].op = "downloadAsZip"
    /\ "handler" \notin DOMAIN call[m]
    /\ \E k \in Runnable(m, "getAll") : Done(m, k)
    /\ call' = [call EXCEPT ![m] =
           [op |-> "downloadAsZip", id |-> 0, st |-> call[m].st, aft |-> call[m].aft,
            handler |-> "rejected"]]
    /\ UNCHANGED <<idbVersion, idbStore, db, openReq, lifecycle, urlCache, objectUrls,
                   uuidPool, lastEv>>

\* the request of a pending downloadAsZip completes, one way or another
DownloadRequestDone(m) ==
    DownloadAsZipSuccess(m) \/ DownloadReadError(m) \/ DownloadCloseError(m)

\* export from a filled store, with a store and a codec that may fail.
\* IndexedDB fires onsuccess or onerror of every request sooner or later: the
\* three completions of a request have one guard and each of them removes the
\* request, so weak fairness of two of them makes the request complete
NextExport == \E m \in {"A"} : DownloadAsZip(m) \/ DownloadRequestDone(m)
SpecExport ==
    /\ InitZip /\ [][NextExport]_vars
    /\ WF_vars(\E m \in {"A"} : DownloadReadError(m) \/ DownloadCloseError(m))

\* ------------------------------------------- writes that are not awaited
\* a write on id is waiting in the queue of manager m
PendingWrite(m, id) ==
    \E k \in 1..Len(txq[dbName(m)]) :
        txq[dbName(m)][k].kind = "put" /\ txq[dbName(m)][k].id = id

\* a write called while earlier writes of the caller may still be pending;
\* the call travels with its request
WriteOverlapped(m, op, item) ==
    LET c == [op |-> op, id |-> item.id, st |-> lifecycle[m],
              aft |-> IF PendingWrite(m, item.id) THEN "pendingWrite" ELSE After(m, item.id)]
    IN /\ call[m] = Idle
       /\ uuidPool' = uuidPool \ {item.id}
       /\ IF GuardError(m) # ""
          THEN /\ lastEv' = Rejected(m, c, GuardError(m))
               /\ UNCHANGED txq
          ELSE /\ QueueRoom(m)
               /\ Enqueue(m, Req(m, "put", item.id, <<item, c>>))
               /\ UNCHANGED lastEv
       /\ UNCHANGED <<idbVersion, idbStore, db, openReq, lifecycle, urlCache, objectUrls, call>>

\* src.ts:117-137
SyncFileOverlapped(m) ==
    \E id \in Ids, file \in FileInputs : WriteOverlapped(m, "syncFile", SyncFileItem(id, file))

\* src.ts:82-96
AddAssetEntryOverlapped(m) ==
    \E entry \in AssetEntries : WriteOverlapped(m, "addAssetEntry", entry)

\* request.onsuccess of one of the pending writes (src.ts:94, 135)
WriteOverlappedSuccess(m) ==
    /\ \E k \in Runnable(m, "put") :
          LET r == txq[dbName(m)][k] IN
          /\ idbStore' = [idbStore EXCEPT ![dbName(m)] = StorePut(@, r.item[1])]
          /\ Done(m, k)
          /\ lastEv' = [Resolved(m, r.item[2]) EXCEPT !.rec = <<r.item[1]>>]
    /\ UNCHANGED <<idbVersion, db, openReq, lifecycle, urlCache, objectUrls, uuidPool, call>>

\* a Ready manager whose caller does not await its writes
NextWrites ==
    \E m \in {"A"} :
       SyncFileOverlapped(m) \/ AddAssetEntryOverlapped(m) \/ WriteOverlappedSuccess(m)
SpecWrites == InitTwo /\ [][NextWrites]_vars

\* ------------------------------------------- a generator that repeats
\* index.test.ts:129-131 : uuid.v4 mocked to return "mocked-uuid" every time
MockedUuid == 1
createFileIDMocked == {MockedUuid}

\* src.ts:49-80 : addFile with the mocked generator; the store is not asked
\* whether the id is taken
AddFileMocked(m) ==
    /\ call[m] = Idle
    /\ \E id \in createFileIDMocked, file \in FileInputs, name \in NameArgs :
          /\ uuidPool' = uuidPool \ {id}
          /\ StartTx(m, NewCall(m, "addFile", id),
                     Req(m, "put", id, <<AddFileItem(id, file, name)>>))
    /\ UNCHANGED <<idbVersion, idbStore, db, openReq, lifecycle, urlCache, objectUrls>>

\* src.ts:249-253 and 257 : the step of uploadZip with the mocked generator
UploadZipStepMocked(m) ==
    /\ call[m].op = "uploadZip"
    /\ call[m].phase = "read"
    /\ LET c == call[m] IN
       IF c.i > Len(c.entries)
       THEN /\ lastEv' = UploadEv(m, c)
            /\ call' = [call EXCEPT ![m] = Idle]
            /\ UNCHANGED <<txq, uuidPool>>
       ELSE \E id \in createFileIDMocked :
               LET entry == c.entries[c.i]
                   item == AddFileItem(id, EntryFile(entry), NoName)
               IN /\ uuidPool' = uuidPool \ {id}
                  /\ IF GuardError(m) # ""
                     THEN /\ lastEv' = [UploadEv(m, c) EXCEPT !.ok = FALSE, !.err = GuardError(m)]
                          /\ call' = [call EXCEPT ![m] = Idle]
                          /\ UNCHANGED txq
                     ELSE /\ QueueRoom(m)
                          /\ Enqueue(m, Req(m, "put", id, <<item>>))
                          /\ call' = [call EXCEPT ![m] =
                                 [c EXCEPT !.phase = "put", !.ins = Append(@, item)]]
                          /\ UNCHANGED lastEv
    /\ UNCHANGED <<idbVersion, idbStore, db, openReq, lifecycle, urlCache, objectUrls>>

\* a Ready manager under the mocked generator, next to records that syncFile
\* stored under ids of the caller's choice
NextMocked ==
    \E m \in {"A"} :
       \/ AddFileMocked(m) \/ SyncFile(m) \/ PutSuccess(m)
       \/ UploadZip(m) \/ UploadZipStepMocked(m) \/ UploadPutSuccess(m)
       \/ GetTotalUsage(m) \/ GetTotalUsageSuccess(m)
SpecMocked == InitTwo /\ [][NextMocked]_vars

\* =================================================================== claims

\* C1: on an initialized manager, a getFileUrl(id) issued right after
\* addFile resolved with id resolves with a URL, and a getFileUrl(id) issued
\* right after deleteFile(id) resolved resolves with null, the record and the
\* cached URL of id being gone.
C1_UrlAfterAddAndDelete ==
    /\ (lastEv.op = "getFileUrl" /\ lastEv.aft = "addFile" /\ lastEv.st = "Ready")
          => (lastEv.ok /\ lastEv.url # 0)
    /\ (lastEv.op = "getFileUrl" /\ lastEv.aft = "deleteFile" /\ lastEv.st = "Ready")
          => /\ lastEv.ok /\ lastEv.url = 0
             /\ lastEv.id \notin DOMAIN StoreOf(lastEv.c)
             /\ lastEv.id \notin DOMAIN urlCache[lastEv.c]

\* a URL of id had been minted and cached, deleteFile(id) revoked it, and the
\* getFileUrl(id) that followed resolved with null
C1_Witness ==
    /\ lastEv.op = "getFileUrl" /\ lastEv.aft = "deleteFile" /\ lastEv.st = "Ready"
    /\ lastEv.url = 0
    /\ lastEv.id \notin uuidPool
    /\ \E u \in 1..Len(objectUrls) : objectUrls[u].revoked

\* C2: a call other than initialize() issued while the manager is not Ready
\* is rejected with NotInitialized.
C2_NotReadyRejects ==
    (lastEv.op \notin {"none", "initialize"} /\ lastEv.st # "Ready")
        => (~lastEv.ok /\ lastEv.err = "NotInitialized")

\* C3 as claimed: what instance B reads is what it would read had instance A
\* done nothing; the id A's addFile generated is new, so B's getFile of that
\* id, issued right after, would find no record.
C3_NoInterference ==
    (lastEv.op = "getFile" /\ lastEv.aft = "otherAddFile") => lastEv.rec = <<>>

\* the sum of the size fields of the records of a store
RECURSIVE SizeSum(_)
SizeSum(s) ==
    IF DOMAIN s = {} THEN 0
    ELSE LET i == CHOOSE i \in DOMAIN s : TRUE
         IN s[i].size + SizeSum([j \in DOMAIN s \ {i} |-> s[j]])

\* C4: whenever getTotalUsage() settles it resolves with the sum of the size
\* fields of the records in the store at that moment.
C4_TotalUsageIsSum ==
    [][\A m \in Managers :
          (call[m].op = "getTotalUsage" /\ call'[m] = Idle)
              => (lastEv'.ok /\ lastEv'.n = SizeSum(StoreOf(m)'))]_vars

\* records of sizes 1 and 5 are stored and getTotalUsage() resolved with 6
C4_Witness ==
    /\ lastEv.op = "getTotalUsage" /\ lastEv.ok /\ lastEv.n = 6
    /\ {StoreOf(lastEv.c)[i].size : i \in DOMAIN StoreOf(lastEv.c)} = {1, 5}

\* C5: when clear() has resolved the URL cache is empty and every URL the
\* manager minted is revoked; on a Ready manager the getTotalUsage(),
\* getFile(id) or getFileUrl(id) issued right after it resolves with 0, null
\* and null.
C5_AfterClear ==
    /\ (lastEv.op = "clear" /\ lastEv.ok)
          => /\ urlCache[lastEv.c] = EmptyStore
             /\ \A u \in 1..Len(objectUrls) :
                   objectUrls[u].by = lastEv.c => objectUrls[u].revoked
    /\ (lastEv.aft = "clear" /\ lastEv.st = "Ready")
          => /\ lastEv.op = "getTotalUsage" => (lastEv.ok /\ lastEv.n = 0)
             /\ lastEv.op = "getFile" => (lastEv.ok /\ lastEv.rec = <<>>)
             /\ lastEv.op = "getFileUrl" => (lastEv.ok /\ lastEv.url = 0)

\* a stored id had a URL, clear() revoked it, and the getFileUrl(id) that
\* followed resolved with null
C5_Witness ==
    /\ lastEv.op = "getFileUrl" /\ lastEv.aft = "clear" /\ lastEv.st = "Ready"
    /\ lastEv.url = 0
    /\ lastEv.id \notin uuidPool
    /\ \E u \in 1..Len(objectUrls) : objectUrls[u].revoked

\* C3, amended: the instances keep separate URL caches, db handles and calls,
\* and share the records: a manager's cache, handle and call change only in
\* that manager's own steps, and getFile and getTotalUsage on one manager
\* resolve with what the other manager's store holds at that moment.
C3_SharedStoreOwnCache ==
    [][\A a, b \in Managers :
          a # b =>
            /\ (urlCache'[b] # urlCache[b] \/ db'[b] # db[b] \/ call'[b] # call[b])
                  => TwoStep(b)
            /\ (call[b].op = "getFile" /\ call'[b] = Idle)
                  => lastEv'.rec = StoreGet(StoreOf(a)', call[b].id)
            /\ (call[b].op = "getTotalUsage" /\ call'[b] = Idle)
                  => lastEv'.n = SizeSum(StoreOf(a)')]_vars

\* B's getFile(id), issued right after A's addFile resolved with id, resolved
\* with the record A stored
C3_Witness ==
    /\ lastEv.c = "B" /\ lastEv.op = "getFile" /\ lastEv.aft = "otherAddFile"
    /\ lastEv.rec # <<>>
    /\ urlCache["B"] = EmptyStore

\* ------------------------------------------------------- export and import
NamesOf(files) == [i \in 1..Len(files) |-> files[i].name]
FilenamesOf(zip) == [i \in 1..Len(zip) |-> zip[i].filename]
PayloadsOf(files) == [i \in 1..Len(files) |-> files[i].file.data]
ZipPayloadsOf(zip) == [i \in 1..Len(zip) |-> zip[i].data]
Distinct(seq) == \A i, j \in 1..Len(seq) : i # j => seq[i] # seq[j]
SeqToBag(seq) ==
    [x \in {seq[i] : i \in 1..Len(seq)} |-> Cardinality({i \in 1..Len(seq) : seq[i] = x})]

\* the position of the last '.' of a name, 0 when it has none
LastDot(name) ==
    IF \E i \in 1..Len(name) : name[i] = "."
    THEN CHOOSE i \in 1..Len(name) :
            name[i] = "." /\ \A j \in (i + 1)..Len(name) : name[j] # "."
    ELSE 0

\* stem_N.ext, or name_N for a name without '.'
Renamed(name, N) ==
    IF LastDot(name) = 0 THEN name \o <<"_">> \o ToStr(N)
    ELSE SubSeq(name, 1, LastDot(name) - 1) \o <<"_">> \o ToStr(N) \o <<".">>
            \o SubSeq(name, LastDot(name) + 1, Len(name))

\* the names the claim gives to the records, in enumeration order
RECURSIVE ClaimedNames(_, _)
ClaimedNames(names, acc) ==
    IF names = <<>> THEN acc
    ELSE LET name == Head(names)
             used == {acc[i] : i \in 1..Len(acc)}
             N == CHOOSE n \in 1..(Len(acc) + 1) :
                     /\ Renamed(name, n) \notin used
                     /\ \A k \in 1..(n - 1) : Renamed(name, k) \in used
         IN ClaimedNames(Tail(names),
                         Append(acc, IF name \in used THEN Renamed(name, N) ELSE name))

\* C6: an export without failed entries writes the records in enumeration
\* order, a record whose name is already used under stem_N.ext (name_N without
\* a '.') with the smallest N >= 1 that is unused; the entry names of any
\* archive are pairwise distinct.
C6_CollisionNames ==
    (lastEv.op = "downloadAsZip" /\ lastEv.ok) =>
        /\ Distinct(FilenamesOf(lastEv.zip))
        /\ lastEv.failed = {} =>
              /\ FilenamesOf(lastEv.zip) = ClaimedNames(NamesOf(lastEv.files), <<>>)
              /\ ZipPayloadsOf(lastEv.zip) = PayloadsOf(lastEv.files)

\* two records named "a.t" were exported as "a.t" and "a_1.t"
C6_Witness ==
    /\ lastEv.op = "downloadAsZip" /\ lastEv.ok
    /\ NamesOf(lastEv.files) = <<NameAT, NameAT>>
    /\ FilenamesOf(lastEv.zip) = <<NameAT, <<"a", "_", "1", ".", "t">>>>

\* C7: the first record that carries a name is exported under that name.
C7_FirstOccurrenceKept ==
    (lastEv.op = "downloadAsZip" /\ lastEv.ok /\ lastEv.failed = {}) =>
        \A i \in 1..Len(lastEv.files) :
            (\A j \in 1..(i - 1) : lastEv.files[j].name # lastEv.files[i].name)
                => lastEv.zip[i].filename = lastEv.files[i].name

\* C8: re-importing the archive of an export in which no add failed inserts
\* as many new records as were exported, with the same payloads as a multiset.
C8_RoundTrip ==
    (lastEv.op = "uploadZip" /\ lastEv.rt /\ lastEv.failed = {}) =>
        /\ lastEv.ok
        /\ Len(lastEv.ins) = Len(lastEv.files)
        /\ SeqToBag(PayloadsOf(lastEv.ins)) = SeqToBag(PayloadsOf(lastEv.files))
        /\ Distinct([k \in 1..Len(lastEv.ins) |-> lastEv.ins[k].id])
        /\ \A k \in 1..Len(lastEv.ins) :
              /\ \A i \in 1..Len(lastEv.files) : lastEv.ins[k].id # lastEv.files[i].id
              /\ lastEv.ins[k].id \in DOMAIN StoreOf(lastEv.c)
              /\ StoreOf(lastEv.c)[lastEv.ins[k].id] = lastEv.ins[k]

\* two records with one name and different payloads went through the round trip
C8_Witness ==
    /\ lastEv.op = "uploadZip" /\ lastEv.rt /\ lastEv.failed = {} /\ lastEv.ok
    /\ NamesOf(lastEv.files) = <<NameAT, NameAT>>
    /\ PayloadsOf(lastEv.files) = <<<<7>>, <<8, 9>>>>
    /\ Len(lastEv.ins) = 2
    /\ Cardinality(DOMAIN StoreOf(lastEv.c)) = 4

\* the records whose add did not fail, in order
RECURSIVE Kept(_, _, _)
Kept(files, failed, i) ==
    IF i > Len(files) THEN <<>>
    ELSE (IF i \in failed THEN <<>> ELSE <<files[i]>>) \o Kept(files, failed, i + 1)

\* C9: downloadAsZip resolves whatever adds fail, and its archive holds the
\* payload of every record whose add did not fail, in order.
C9_BestEffortExport ==
    lastEv.op = "downloadAsZip" =>
        /\ lastEv.ok
        /\ Len(lastEv.zip) = Len(lastEv.files) - Cardinality(lastEv.failed)
        /\ ZipPayloadsOf(lastEv.zip) = PayloadsOf(Kept(lastEv.files, lastEv.failed, 1))

\* one add of three failed and the archive holds the other two records
C9_Witness ==
    /\ lastEv.op = "downloadAsZip" /\ lastEv.ok
    /\ Cardinality(lastEv.failed) = 1
    /\ Len(lastEv.files) = 3
    /\ Len(lastEv.zip) = 2

\* the entries of an archive that are not directory markers
FileEntries(zip) == SelectSeq(zip, LAMBDA e : ~e.directory)

C11_ImportStopsAtFailure ==
    [][\A m \in Managers :
          /\ UploadZipHeaderError(m) =>
                /\ ~lastEv'.ok /\ lastEv'.err = "ArchiveHeaderError"
                /\ idbStore' = idbStore /\ txq' = txq /\ call'[m] = Idle
          /\ (call[m].op = "uploadZip" /\ call'[m] = Idle /\ ~lastEv'.ok) =>
                LET before == FileEntries(SubSeq(call[m].entries, 1, call[m].i - 1))
                    ins == lastEv'.ins
                    store == idbStore'[dbName(m)]
                IN /\ idbStore' = idbStore
                   /\ NamesOf(ins) = FilenamesOf(before)
                   /\ PayloadsOf(ins) = ZipPayloadsOf(before)
                   /\ \A k \in 1..Len(ins) :
                         ins[k].id \in DOMAIN store /\ store[ins[k].id] = ins[k]
                   /\ Cardinality(DOMAIN store) = call[m].n0 + Len(before)
                   /\ \A k \in 1..Len(txq'[dbName(m)]) :
                         txq'[dbName(m)][k].kind # "put"]_vars

\* decoding the second of two entries failed and the record of the first one
\* is in the store
C11_Witness ==
    /\ lastEv.op = "uploadZip" /\ ~lastEv.ok /\ lastEv.err = "ArchiveEntryError"
    /\ Len(lastEv.zip) = 2
    /\ Len(lastEv.ins) = 1
    /\ lastEv.ins[1].id \in DOMAIN StoreOf(lastEv.c)

\* C12: whenever a request of the store fails (a step no successful request
\* explains), the call that issued it is rejected with a storage error.
C12_StoreFailureRejects ==
    [][\A m \in Managers :
          (StoreFailure(m) /\ ~StoreStep(m)) =>
              (lastEv'.c = m /\ ~lastEv'.ok /\ lastEv'.err = "StorageError")]_vars

\* the put request a call of manager m waits for
PutOf(m) ==
    LET q == txq[dbName(m)]
    IN q[CHOOSE k \in 1..Len(q) : q[k].m = m /\ q[k].kind = "put"].item[1]

\* C13: syncFile(payload, id) writes a record with exactly that id and
\* payload, resolves with id, and its put creates the record or replaces the
\* one of that id, every other record and, for an existing id, the number of
\* records staying as they were; getFile(id) then finds that record.
C13_SyncFileInPlace ==
    [][\A m \in Managers :
          /\ (call[m] = Idle /\ call'[m].op = "syncFile") =>
                LET q == txq'[dbName(m)]
                    item == q[Len(q)].item[1]
                IN /\ q[Len(q)].kind = "put"
                   /\ item.id = call'[m].id
                   /\ item.file \in FileInputs
                   /\ item.size = Len(item.file.data)
          /\ (call[m].op = "syncFile" /\ call'[m] = Idle) =>
                LET id == call[m].id
                    old == StoreOf(m)
                    new == idbStore'[dbName(m)]
                IN /\ lastEv'.ok /\ lastEv'.op = "syncFile" /\ lastEv'.id = id
                   /\ PutOf(m).id = id
                   /\ DOMAIN new = DOMAIN old \cup {id}
                   /\ new[id] = PutOf(m)
                   /\ \A i \in DOMAIN old \ {id} : new[i] = old[i]
                   /\ id \in DOMAIN old => Cardinality(DOMAIN new) = Cardinality(DOMAIN old)
                   /\ StoreGet(new, id) = <<PutOf(m)>>]_vars

\* a syncFile issued right after addFile resolved with its id replaced that
\* record by a File's, next to a second record
C13_Witness ==
    /\ lastEv.op = "syncFile" /\ lastEv.ok /\ lastEv.aft = "addFile"
    /\ Cardinality(DOMAIN StoreOf(lastEv.c)) = 2
    /\ StoreOf(lastEv.c)[lastEv.id].file = MkFile(NameAT, <<7>>)
    /\ StoreOf(lastEv.c)[lastEv.id].name = NameAT

\* C14: a deleteFile(id) of an id without a record resolves, its delete
\* request changes no record, the URL-cache entries of the other ids stay, and
\* the getFileUrl(id) issued right after it resolves with null.
C14_DeleteUnknownId ==
    [][\A m \in Managers :
          /\ (DeleteFile(m) /\ db[m] = "open" /\ lastEv'.id \notin DOMAIN StoreOf(m)) =>
                /\ lastEv'.op = "deleteFile" /\ lastEv'.ok
                /\ idbStore' = idbStore
                /\ \A i \in DOMAIN urlCache[m] \ {lastEv'.id} :
                      i \in DOMAIN urlCache'[m] /\ urlCache'[m][i] = urlCache[m][i]
                /\ objectUrls' = objectUrls
          /\ \A k \in 1..Len(txq[dbName(m)]) :
                (/\ txq[dbName(m)][k].kind = "delete"
                 /\ txq[dbName(m)][k].id \notin DOMAIN StoreOf(m)
                 /\ txq'[dbName(m)] = Dequeue(txq[dbName(m)], k)
                 /\ call' = call)
                    => idbStore' = idbStore
          /\ (lastEv'.op = "getFileUrl" /\ lastEv'.aft = "deleteFile" /\ lastEv'.st = "Ready")
                => (lastEv'.ok /\ lastEv'.url = 0)]_vars

\* deleteFile(id) of an id that was never stored resolved next to a record
\* with a cached URL, and the getFileUrl(id) that followed resolved with null
C14_Witness ==
    /\ lastEv.op = "getFileUrl" /\ lastEv.aft = "deleteFile" /\ lastEv.st = "Ready"
    /\ lastEv.ok /\ lastEv.url = 0
    /\ lastEv.id \in uuidPool
    /\ StoreOf(lastEv.c) # EmptyStore
    /\ urlCache[lastEv.c] # EmptyStore
    /\ \A u \in 1..Len(objectUrls) : ~objectUrls[u].revoked

\* C15: a getFile(id) or getFileUrl(id) that finds no record of id resolves
\* with null, mints no URL and leaves the URL cache as it is; the cache gains
\* an entry only in a step in which getFileUrl resolves with the URL it
\* caches.
C15_AbsentIsNull ==
    [][\A m \in Managers :
          /\ (/\ call[m].op \in {"getFile", "getFileUrl"} /\ call'[m] = Idle
              /\ call[m].id \notin DOMAIN StoreOf(m)) =>
                /\ lastEv'.ok /\ lastEv'.op = call[m].op /\ lastEv'.id = call[m].id
                /\ lastEv'.rec = <<>> /\ lastEv'.url = 0
                /\ objectUrls' = objectUrls
                /\ urlCache' = urlCache
          /\ \A id \in DOMAIN urlCache'[m] \ DOMAIN urlCache[m] :
                /\ lastEv'.op = "getFileUrl" /\ lastEv'.ok /\ lastEv'.id = id
                /\ lastEv'.url # 0 /\ urlCache'[m][id] = lastEv'.url
                /\ id \in DOMAIN StoreOf(m)]_vars

\* next to a stored record, the getFileUrl of an id without a record resolved
\* with null and the cache is empty
C15_Witness ==
    /\ lastEv.op = "getFileUrl" /\ lastEv.ok /\ lastEv.url = 0 /\ lastEv.st = "Ready"
    /\ lastEv.id \notin DOMAIN StoreOf(lastEv.c)
    /\ StoreOf(lastEv.c) # EmptyStore
    /\ urlCache[lastEv.c] = EmptyStore
    /\ objectUrls = <<>>

\* C16: a Ready manager stays Ready with its database open whatever step is
\* taken; an initialize() on a Ready manager triggers no upgrade, can complete
\* (the database has the version it asks for), changes no record and resolves.
C16_InitializeIdempotent ==
    [][\A m \in Managers :
          /\ lifecycle[m] = "Ready" =>
                /\ db[m] = "open"
                /\ lifecycle'[m] = "Ready" /\ db'[m] = "open"
          /\ (lifecycle[m] = "Ready" /\ openReq'[m] # openReq[m]) =>
                /\ idbStore' = idbStore /\ idbVersion' = idbVersion
                /\ urlCache' = urlCache
                /\ openReq'[m] \in {"pending", "none"}
                /\ openReq'[m] = "pending" => idbVersion[dbName(m)] = DbVersion
                /\ openReq'[m] = "none" =>
                      (lastEv'.c = m /\ lastEv'.op = "initialize" /\ lastEv'.ok)]_vars

\* initialize() resolved on a manager that was Ready and held a record
C16_Witness ==
    /\ lastEv.op = "initialize" /\ lastEv.ok /\ lastEv.st = "Ready"
    /\ lifecycle[lastEv.c] = "Ready" /\ db[lastEv.c] = "open"
    /\ StoreOf(lastEv.c) # EmptyStore

\* C17: once every call and request of a manager has completed, its URL
\* cache holds entries only for ids that have a record.
C17_CacheNeverOutlivesRecord ==
    \A m \in Managers :
        (call[m] = Idle /\ txq[dbName(m)] = <<>>)
            => DOMAIN urlCache[m] \subseteq DOMAIN StoreOf(m)

\* C18: when clear() is the call that resolved last and no getFileUrl is in
\* flight, every URL the manager minted is revoked.
C18_NoUrlLeaked ==
    \A m \in Managers :
        (lastEv.c = m /\ lastEv.op = "clear" /\ lastEv.ok /\ UrlGets(m) = {}
            /\ call[m] = Idle)
            => \A u \in 1..Len(objectUrls) : objectUrls[u].by = m => objectUrls[u].revoked

\* C19: every downloadAsZip() call that is pending eventually settles.
C19_DownloadSettles ==
    \A m \in Managers : (call[m].op = "downloadAsZip") ~> (call[m] = Idle)

\* C20: every write that settles resolves with the id it was given, and after
\* the write that settled last the store holds, under that id, exactly the
\* record that write put - all of its fields - also when the write was issued
\* while another write on the id was pending.
C20_LastWriteWins ==
    (lastEv.op \in {"syncFile", "addAssetEntry"}) =>
        /\ lastEv.ok
        /\ lastEv.rec # <<>>
        /\ lastEv.rec[1].id = lastEv.id
        /\ lastEv.id \in DOMAIN StoreOf(lastEv.c)
        /\ StoreOf(lastEv.c)[lastEv.id] = lastEv.rec[1]
        /\ ~PendingWrite(lastEv.c, lastEv.id) =>
              \A i \in DOMAIN StoreOf(lastEv.c) : StoreOf(lastEv.c)[i].id = i

\* a syncFile of a File, issued while another write on its id was pending,
\* settled last and the record of the id is the File's, name and size included
C20_Witness ==
    /\ lastEv.op = "syncFile" /\ lastEv.ok /\ lastEv.aft = "pendingWrite"
    /\ txq[dbName(lastEv.c)] = <<>>
    /\ StoreOf(lastEv.c)[lastEv.id] = SyncFileItem(lastEv.id, MkFile(NameAT, <<7>>))

\* C21: a getFileUrl(id) that resolves with a URL resolves with a URL minted
\* from the payload that is stored under id at that moment.
C21_UrlOfCurrentPayload ==
    [][\A m \in Managers :
          (/\ GetFileUrl(m) \/ GetFileUrlSuccess(m)
           /\ call'[m] = Idle
           /\ lastEv'.c = m /\ lastEv'.op = "getFileUrl" /\ lastEv'.ok /\ lastEv'.url # 0) =>
              /\ lastEv'.id \in DOMAIN idbStore'[dbName(m)]
              /\ objectUrls'[lastEv'.url].data = idbStore'[dbName(m)][lastEv'.id].file.data]_vars

\* C22: under a generator that returns an id that is already stored, the put
\* of an addFile (direct or inside uploadZip) replaces the record of that id
\* by the new item and the number of records does not grow; the addFile
\* resolves with that id.
C22_GeneratedIdNotChecked ==
    [][\A m \in Managers :
          /\ \A k \in 1..Len(txq[dbName(m)]) :
                LET r == txq[dbName(m)][k] IN
                (/\ r.kind = "put" /\ r.m = m /\ call[m].op \in {"addFile", "uploadZip"}
                 /\ txq'[dbName(m)] = Dequeue(txq[dbName(m)], k)
                 /\ r.id \in DOMAIN StoreOf(m)) =>
                    /\ idbStore'[dbName(m)][r.id] = r.item[1]
                    /\ DOMAIN idbStore'[dbName(m)] = DOMAIN StoreOf(m)
                    /\ \A i \in DOMAIN StoreOf(m) \ {r.id} :
                          idbStore'[dbName(m)][i] = StoreOf(m)[i]
          /\ (call[m].op = "addFile" /\ call'[m] = Idle) =>
                (lastEv'.ok /\ lastEv'.op = "addFile" /\ lastEv'.id = call[m].id)
          /\ (call[m].op = "uploadZip" /\ call'[m] = Idle /\ lastEv'.ok) =>
                /\ Len(lastEv'.ins) = Len(FileEntries(call[m].entries))
                /\ Cardinality(DOMAIN idbStore'[dbName(m)]) <= lastEv'.n + Len(lastEv'.ins)]_vars

\* an uploadZip of two file entries resolved after two insertions and the
\* store holds one record, the one of the second entry
C22_Witness ==
    /\ lastEv.op = "uploadZip" /\ lastEv.ok
    /\ Len(lastEv.ins) = 2
    /\ lastEv.ins[1].id = lastEv.ins[2].id
    /\ Cardinality(DOMAIN StoreOf(lastEv.c)) = 1
    /\ StoreOf(lastEv.c)[lastEv.ins[2].id] = lastEv.ins[2]
====
